---- MODULE Spec2Model ----
(***************************************************************************)
(* The upload orchestrator of services/synapse.js (the version that takes  *)
(* the upload lock): uploadData acquires the lock, resolves the storage    *)
(* client and the storage session, runs the preflight, starts the transfer *)
(* without awaiting it, resolves the caller's promise on onRootAdded and   *)
(* releases the lock when the transfer's own promise settles.              *)
(*                                                                         *)
(* The Synapse SDK (Synapse.create, createStorage, preflightUpload,        *)
(* storage.upload and the callbacks it delivers) is the environment: each  *)
(* of its calls may return or throw, and a running transfer may deliver    *)
(* its callbacks in any order and any number of times before it settles.   *)
(* lock.service.js is not among the sources; the lock is the FIFO mutex    *)
(* section 4.1 of the specification describes.                             *)
(***************************************************************************)
EXTENDS Integers, Sequences, FiniteSets, TLC

\* Number of uploadData invocations; call k is the k-th invocation.
NumCalls == 3

\* Largest amount a preflight report carries.
MaxAmount == 1

\* Largest number of proof sets the storage network holds for the client.
MaxProofSets == 2

Calls == 1..NumCalls

VARIABLES
    pc,                 \* per call: the await the call is suspended at
    locked,             \* lock.service: the lock is taken
    waiting,            \* lock.service: FIFO queue of suspended acquireLock calls
    synapseInstance,    \* module-level cached SDK client (0 = null, k = the
                        \*   client the k-th successful Synapse.create made)
    creates,            \* number of Synapse.create calls that have succeeded
    synapseOf,          \* per call: the client getSynapse returned (0 = none)
    createStorageCalls, \* per call: number of synapse.createStorage invocations
    storage,            \* per call: the storage service createStorage is
                        \*   resolving or has returned, while the call uses it
    numProofSets,       \* proof sets 1..numProofSets exist and are live
    capturedCommp,      \* per call: closure variable capturedCommp (0 = null)
    hasResolvedForUser, \* per call: closure variable hasResolvedForUser
    promise,            \* per call: the promise uploadData returns
    settles,            \* per call: number of resolve()/reject() invocations
    releases,           \* per call: number of releaseLock() invocations
    preflightCalls,     \* per call: number of storage.preflightUpload invocations
    uploadCalls,        \* per call: number of storage.upload invocations
    pf,                 \* per call: the report preflightUpload returned for the
                        \*   transfer in flight
    xfer,               \* per call: state of the promise storage.upload returned
    confirmed,          \* per call: the transfer in flight has delivered
                        \*   onRootConfirmed
    logged,             \* per call: what console.error recorded
    acqOrder            \* calls in the order acquireLock returned to them

\* The cached client and what callers got from getSynapse.
clientVars == <<synapseInstance, creates, synapseOf>>

\* The storage sessions.
sessionVars == <<createStorageCalls, storage, numProofSets>>

\* The state of uploadData and of the storage client.
uploadVars == <<pc, locked, waiting, clientVars, sessionVars, capturedCommp,
                hasResolvedForUser, promise, settles, releases, preflightCalls,
                uploadCalls, pf, xfer, confirmed, logged, acqOrder>>

\* One request to a handler of controllers/upload.controller.js or
\* controllers/project.controller.js.
VARIABLES
    hpc,                \* the await the handler is suspended at
    hreq,               \* the request: handler, req.file, req.body
    hupload,            \* state of the promise uploadData returned to the handler
    herror,             \* the error the handler's catch block received
    hsent,              \* status codes of the responses sent, in order
    hnext,              \* number of next(error) invocations
    hrows,              \* number of INSERT queries that succeeded
    hunlinks            \* number of fs.unlink(tempFilePath) invocations

controllerVars == <<hpc, hreq, hupload, herror, hsent, hnext, hrows, hunlinks>>

\* What the upload orchestrator leaves alone: the HTTP handlers, the project
\* service and the analysis routes.
\* services/project.service.js: concurrent mintNftForProject calls, the
\* projects table and the NFTs on Flow.
VARIABLES
    mint,               \* per call: position, projectId, pooled client, releases
                        \*   of it, flowResult.nftId, the error caught, the outcome
    nftIdOf,            \* projects table: committed nft_id per row (0 = null)
    pendingNftId,       \* per call: nft_id written by the UPDATE of its open
                        \*   transaction (0 = none)
    rowLock,            \* per row: the call whose transaction has updated it
    mintProjectNFTCalls,\* per project: number of mintProjectNFT invocations
    minted              \* per project: ids of the NFTs minted on Flow

mintVars == <<mint, nftIdOf, pendingNftId, rowLock, mintProjectNFTCalls, minted>>

\* index.js: one request to POST /api/analyze-ld50 and the child process of
\* its runScript call.
VARIABLES
    apc,                \* position of the route handler
    dataUrl,            \* req.body.dataUrl is present
    child,              \* the spawned process: the events it has emitted
    stdout,             \* chunks accumulated by the stdout 'data' listener
    stderr,             \* chunks accumulated by the stderr 'data' listener
    scriptPromise,      \* the promise runScript returned
    scriptSettles,      \* number of resolve/reject calls on it
    asent,              \* statuses of the responses sent
    outputDir,          \* the temporary directory: "none", "exists", "removed"
    rmCalls             \* number of fs.rm calls on it

analyzeVars == <<apc, dataUrl, child, stdout, stderr, scriptPromise, scriptSettles,
                 asent, outputDir, rmCalls>>

apiVars == <<controllerVars, mintVars, analyzeVars>>

vars == <<uploadVars, apiVars>>

----------------------------------------------------------------------------
\* Values

NoValue == [kind |-> "none"]

Err(name) == [kind |-> "error", name |-> name]

NoReport == [kind |-> "none"]

\* What preflightUpload can return: allowanceCheck.sufficient with the
\* required and current amounts.
PreflightReports ==
    { [kind |-> "report", sufficient |-> TRUE, required |-> r, current |-> r] :
        r \in 1..MaxAmount }
    \cup
    UNION { { [kind |-> "report", sufficient |-> FALSE, required |-> r, current |-> k] :
                k \in 0..(r - 1) } : r \in 1..MaxAmount }

\* The CommP the provider computes for the payload of call c.
Commp(c) == c

\* dataBuffer.length of call c.
DataLength(c) == c

CommpToString(commp) == <<"commp", commp>>

\* No storage service: createStorage has not been called, or the call that
\* used the service has ended.
NoStorage == [stage |-> "none"]

\* The object passed to resolve() in onRootAdded.
UploadResult(c) ==
    [kind |-> "result", commp |-> CommpToString(capturedCommp[c]),
     size |-> DataLength(c), proofSetId |-> storage[c].proofSetId]

NoLog == [kind |-> "none"]

Log(kind, name) == [kind |-> kind, error |-> name]

\* Promise semantics: only the first resolve()/reject() has an effect.
Settle(p, state, value) ==
    IF p.state = "pending" THEN [state |-> state, value |-> value] ELSE p

----------------------------------------------------------------------------
\* No request has arrived.
NoRequest == [handler |-> "none"]

InitControllers ==
    /\ hpc = "idle"
    /\ hreq = NoRequest
    /\ hupload = "none"
    /\ herror = "none"
    /\ hsent = <<>>
    /\ hnext = 0
    /\ hrows = 0
    /\ hunlinks = 0

\* Number of concurrent mintNftForProject calls.
NumMints == 2

Mints == 1..NumMints

\* Project ids of the requests: project 1 is a row of the projects table,
\* project 2 is not.
ProjectIds == {1, 2}

ExistingProjects == {1}

NoMint == [pc |-> "idle", project |-> 0, client |-> FALSE, releases |-> 0,
           nft |-> 0, error |-> "none", outcome |-> "none"]

InitMint ==
    /\ mint = [m \in Mints |-> NoMint]
    /\ nftIdOf = [p \in ExistingProjects |-> 0]
    /\ pendingNftId = [m \in Mints |-> 0]
    /\ rowLock = [p \in ExistingProjects |-> 0]
    /\ mintProjectNFTCalls = [p \in ProjectIds |-> 0]
    /\ minted = [p \in ProjectIds |-> {}]

\* Number of 'data' chunks the child process writes to each of its streams.
MaxChunks == 2

\* No process has been spawned.
NoChild == [spawned |-> FALSE, closeCode |-> "none", errored |-> FALSE]

InitAnalyze ==
    /\ apc = "idle"
    /\ dataUrl = FALSE
    /\ child = NoChild
    /\ stdout = <<>>
    /\ stderr = <<>>
    /\ scriptPromise = [state |-> "pending", value |-> <<>>]
    /\ scriptSettles = 0
    /\ asent = <<>>
    /\ outputDir = "none"
    /\ rmCalls = 0

Init ==
    /\ pc = [c \in Calls |-> "init"]
    /\ locked = FALSE
    /\ waiting = <<>>
    /\ synapseInstance = 0
    /\ creates = 0
    /\ synapseOf = [c \in Calls |-> 0]
    /\ createStorageCalls = [c \in Calls |-> 0]
    /\ storage = [c \in Calls |-> NoStorage]
    /\ numProofSets = 0
    /\ capturedCommp = [c \in Calls |-> 0]
    /\ hasResolvedForUser = [c \in Calls |-> FALSE]
    /\ promise = [c \in Calls |-> [state |-> "pending", value |-> NoValue]]
    /\ settles = [c \in Calls |-> 0]
    /\ releases = [c \in Calls |-> 0]
    /\ preflightCalls = [c \in Calls |-> 0]
    /\ uploadCalls = [c \in Calls |-> 0]
    /\ pf = [c \in Calls |-> NoReport]
    /\ xfer = [c \in Calls |-> "none"]
    /\ confirmed = [c \in Calls |-> FALSE]
    /\ logged = [c \in Calls |-> NoLog]
    /\ acqOrder = <<>>
    /\ InitControllers
    /\ InitMint
    /\ InitAnalyze

----------------------------------------------------------------------------
\* lock.service.js

\* acquireLock by call c: returns at once when the lock is free, otherwise
\* the call is queued behind the earlier waiters.
AcquireLock(c) ==
    IF locked
    THEN /\ waiting' = Append(waiting, c)
         /\ pc' = [pc EXCEPT ![c] = "waiting"]
         /\ UNCHANGED <<locked, acqOrder>>
    ELSE /\ locked' = TRUE
         /\ pc' = [pc EXCEPT ![c] = "getSynapse"]
         /\ acqOrder' = Append(acqOrder, c)
         /\ UNCHANGED waiting

\* Variant of NextWaiter: the newest waiter is served first.
NextWaiterNewest == IF waiting = <<>> THEN 0 ELSE waiting[Len(waiting)]

\* The waiter releaseLock hands the lock to (0: none).
NextWaiter == IF waiting = <<>> THEN 0 ELSE Head(waiting)

\* The queue without the waiter that was served.
RestWaiters == SelectSeq(waiting, LAMBDA w : w # NextWaiter)

\* releaseLock called by call c, whose own position becomes newpc: the lock
\* passes to the first waiter, whose acquireLock returns, or becomes free.
ReleaseLock(c, newpc) ==
    /\ releases' = [releases EXCEPT ![c] = @ + 1]
    /\ locked' = (NextWaiter # 0)
    /\ waiting' = RestWaiters
    /\ pc' = IF NextWaiter = 0
             THEN [pc EXCEPT ![c] = newpc]
             ELSE [pc EXCEPT ![c] = newpc, ![NextWaiter] = "getSynapse"]
    /\ acqOrder' = IF NextWaiter = 0 THEN acqOrder ELSE Append(acqOrder, NextWaiter)

----------------------------------------------------------------------------
\* uploadData: the steps between its awaits

\* Variant of Call: uploadData awaits something else before acquireLock, so
\* the acquisition request is made some time after the invocation.
CallAcquiresLate(c) ==
    /\ \/ /\ pc[c] = "init"
          /\ \A d \in Calls : d < c => pc[d] # "init"
          /\ pc' = [pc EXCEPT ![c] = "invoked"]
          /\ UNCHANGED <<locked, waiting, acqOrder>>
       \/ /\ pc[c] = "invoked"
          /\ AcquireLock(c)
    /\ UNCHANGED <<clientVars, sessionVars, capturedCommp, hasResolvedForUser, promise,
                   settles, releases, preflightCalls, uploadCalls, pf, xfer,
                   confirmed, logged>>
    /\ UNCHANGED apiVars

\* Call c invokes uploadData and reaches `await acquireLock()`.  Calls are
\* numbered in the order they are made.
Call(c) ==
    /\ pc[c] = "init"
    /\ \A d \in Calls : d < c => pc[d] # "init"
    /\ AcquireLock(c)
    /\ UNCHANGED <<clientVars, sessionVars, capturedCommp, hasResolvedForUser, promise,
                   settles, releases, preflightCalls, uploadCalls, pf, xfer,
                   confirmed, logged>>
    /\ UNCHANGED apiVars

\* Variant of SetupFailed: the catch block rejects without releaseLock().
SetupFailedKeepsLock(c, err) ==
    /\ logged' = [logged EXCEPT ![c] = Log("setupFailed", err)]
    /\ pc' = [pc EXCEPT ![c] = "done"]
    /\ promise' = [promise EXCEPT ![c] = Settle(@, "rejected", Err(err))]
    /\ settles' = [settles EXCEPT ![c] = @ + 1]
    /\ storage' = [storage EXCEPT ![c] = NoStorage]
    /\ UNCHANGED <<locked, waiting, releases, acqOrder, clientVars, createStorageCalls, numProofSets,
                   capturedCommp, hasResolvedForUser, preflightCalls, uploadCalls,
                   pf, xfer, confirmed>>
    /\ UNCHANGED apiVars

\* catch (initialError): log, releaseLock(), reject(initialError).
SetupFailed(c, err) ==
    /\ logged' = [logged EXCEPT ![c] = Log("setupFailed", err)]
    /\ ReleaseLock(c, "done")
    /\ promise' = [promise EXCEPT ![c] = Settle(@, "rejected", Err(err))]
    /\ settles' = [settles EXCEPT ![c] = @ + 1]
    /\ storage' = [storage EXCEPT ![c] = NoStorage]
    /\ UNCHANGED <<clientVars, createStorageCalls, numProofSets, capturedCommp, hasResolvedForUser,
                   preflightCalls, uploadCalls, pf, xfer, confirmed>>
    /\ UNCHANGED apiVars

\* getSynapse finds the cache null and calls Synapse.create; other callers
\* run while the creation is awaited.
SynapseCreate(c) ==
    /\ pc[c] = "getSynapse"
    /\ synapseInstance = 0
    /\ pc' = [pc EXCEPT ![c] = "create"]
    /\ UNCHANGED <<locked, waiting, clientVars, sessionVars, capturedCommp,
                   hasResolvedForUser, promise, settles, releases,
                   preflightCalls, uploadCalls, pf, xfer, confirmed, logged,
                   acqOrder>>
    /\ UNCHANGED apiVars

\* getSynapse returns to call c: the client Synapse.create just made is
\* assigned to synapseInstance, or the cached one is found, and
\* synapseInstance is returned.
GetSynapse(c) ==
    /\ IF pc[c] = "create"
       THEN /\ creates' = creates + 1
            /\ synapseInstance' = creates + 1
       ELSE /\ pc[c] = "getSynapse"
            /\ synapseInstance # 0
            /\ UNCHANGED <<creates, synapseInstance>>
    /\ synapseOf' = [synapseOf EXCEPT ![c] = synapseInstance']

\* options.proofSetId of a call: 0 when the caller passes none.
ProofSetOptions == 0..MaxProofSets

\* Proof set id names a proof set that exists and is live.
IsLive(id) == id \in 1..numProofSets

\* Variant of CreateStorageOptions: the caller's proofSetId is not forwarded.
CreateStorageOptionsDropped(id) == 0

\* The proofSetId uploadData passes to createStorage for options.proofSetId.
CreateStorageOptions(id) == id

\* synapse.createStorage is invoked by call c whose options.proofSetId is id.
CreateStorage(c, id) ==
    /\ createStorageCalls' = [createStorageCalls EXCEPT ![c] = @ + 1]
    /\ storage' = [storage EXCEPT ![c] =
                     [stage |-> "start", option |-> id, optionLive |-> IsLive(id),
                      requested |-> CreateStorageOptions(id), proofSetId |-> 0,
                      isExisting |-> FALSE]]
    /\ UNCHANGED numProofSets

\* `await getSynapse()` returns; the executor goes on to call
\* synapse.createStorage.
GetSynapseReturns(c) ==
    /\ GetSynapse(c)
    /\ \E id \in ProofSetOptions : CreateStorage(c, id)
    /\ pc' = [pc EXCEPT ![c] = "createStorage"]
    /\ UNCHANGED <<locked, waiting, capturedCommp, hasResolvedForUser, promise,
                   settles, releases, preflightCalls, uploadCalls, pf, xfer,
                   confirmed, logged, acqOrder>>
    /\ UNCHANGED apiVars

\* Variant of GetSynapseThrows: the promise of Synapse.create is cached before
\* it is awaited, so a failed creation stays in synapseInstance (-1).
GetSynapseThrowsCachesFailure(c) ==
    /\ pc[c] = "create"
    /\ synapseInstance' = -1
    /\ logged' = [logged EXCEPT ![c] = Log("setupFailed", "SynapseCreateError")]
    /\ ReleaseLock(c, "done")
    /\ promise' = [promise EXCEPT ![c] = Settle(@, "rejected", Err("SynapseCreateError"))]
    /\ settles' = [settles EXCEPT ![c] = @ + 1]
    /\ storage' = [storage EXCEPT ![c] = NoStorage]
    /\ UNCHANGED <<creates, synapseOf, createStorageCalls, numProofSets,
                   capturedCommp, hasResolvedForUser, preflightCalls, uploadCalls,
                   pf, xfer, confirmed>>
    /\ UNCHANGED apiVars

\* Synapse.create throws: the cache is not assigned and the executor's catch
\* runs.
GetSynapseThrows(c) ==
    /\ pc[c] = "create"
    /\ SetupFailed(c, "SynapseCreateError")

\* The session resolver inside createStorage is negotiating for call c.
Negotiating(c, stage) ==
    /\ pc[c] = "createStorage"
    /\ storage[c].stage = stage

\* onProviderSelected: a provider was selected because the requested proof
\* set is not a live one.  The callback logs only.
OnProviderSelected(c) ==
    /\ Negotiating(c, "start")
    /\ ~IsLive(storage[c].requested)
    /\ storage' = [storage EXCEPT ![c].stage = "providerSelected"]
    /\ UNCHANGED <<pc, locked, waiting, clientVars, createStorageCalls,
                   numProofSets, capturedCommp, hasResolvedForUser, promise,
                   settles, releases, preflightCalls, uploadCalls, pf, xfer,
                   confirmed, logged, acqOrder>>
    /\ UNCHANGED apiVars

\* onProofSetResolved: the resolver attaches to an existing proof set of the
\* provider or decides to create the next one.  The callback logs only.
OnProofSetResolved(c, id) ==
    /\ Negotiating(c, "providerSelected")
    /\ id \in 1..(numProofSets + 1)
    /\ id <= MaxProofSets
    /\ storage' = [storage EXCEPT ![c].stage = "proofSetResolved",
                                  ![c].proofSetId = id,
                                  ![c].isExisting = IsLive(id)]
    /\ UNCHANGED <<pc, locked, waiting, clientVars, createStorageCalls,
                   numProofSets, capturedCommp, hasResolvedForUser, promise,
                   settles, releases, preflightCalls, uploadCalls, pf, xfer,
                   confirmed, logged, acqOrder>>
    /\ UNCHANGED apiVars

\* onProofSetCreationStarted: the creation transaction was submitted.  The
\* callback logs only.
OnProofSetCreationStarted(c) ==
    /\ Negotiating(c, "proofSetResolved")
    /\ ~storage[c].isExisting
    /\ storage' = [storage EXCEPT ![c].stage = "creationStarted"]
    /\ UNCHANGED <<pc, locked, waiting, clientVars, createStorageCalls,
                   numProofSets, capturedCommp, hasResolvedForUser, promise,
                   settles, releases, preflightCalls, uploadCalls, pf, xfer,
                   confirmed, logged, acqOrder>>
    /\ UNCHANGED apiVars

\* onProofSetCreationProgress: repeated until the new proof set is live.  The
\* callback logs only.
OnProofSetCreationProgress(c, live) ==
    /\ Negotiating(c, "creationStarted")
    /\ IF live
       THEN /\ storage' = [storage EXCEPT ![c].stage = "proofSetLive"]
            /\ numProofSets' = IF storage[c].proofSetId > numProofSets
                               THEN storage[c].proofSetId ELSE numProofSets
       ELSE UNCHANGED <<storage, numProofSets>>
    /\ UNCHANGED <<pc, locked, waiting, clientVars, createStorageCalls,
                   capturedCommp, hasResolvedForUser, promise, settles, releases,
                   preflightCalls, uploadCalls, pf, xfer, confirmed, logged,
                   acqOrder>>
    /\ UNCHANGED apiVars

\* createStorage can return for call c: the requested proof set is live and
\* is reused, or the negotiation ended with an existing or a newly live one.
SessionResolved(c) ==
    \/ storage[c].stage = "start" /\ IsLive(storage[c].requested)
    \/ storage[c].stage = "proofSetResolved" /\ storage[c].isExisting
    \/ storage[c].stage = "proofSetLive"

\* storage.proofSetId of the service createStorage returns.
ResolvedProofSetId(c) ==
    IF storage[c].stage = "start" THEN storage[c].requested ELSE storage[c].proofSetId

\* `await synapse.createStorage(...)` returns the service: its proofSetId and
\* whether it is the caller's proof set, reused.  preflightUpload is called.
CreateStorageReturns(c) ==
    /\ pc[c] = "createStorage"
    /\ SessionResolved(c)
    /\ storage' = [storage EXCEPT ![c] =
                     [stage |-> "ready", proofSetId |-> ResolvedProofSetId(c),
                      reused |-> (storage[c].stage = "start")]]
    /\ pc' = [pc EXCEPT ![c] = "preflight"]
    /\ preflightCalls' = [preflightCalls EXCEPT ![c] = @ + 1]
    /\ UNCHANGED <<locked, waiting, clientVars, createStorageCalls, numProofSets,
                   capturedCommp, hasResolvedForUser, promise, settles, releases,
                   uploadCalls, pf, xfer, confirmed, logged, acqOrder>>
    /\ UNCHANGED apiVars

CreateStorageThrows(c) ==
    /\ pc[c] = "createStorage"
    /\ SetupFailed(c, "CreateStorageError")

\* `await storage.preflightUpload(dataBuffer.length)` returns report r.  The
\* value of the await is dropped; storage.upload is called in the same turn
\* and its promise gets the .then/.catch handlers.
PreflightReturns(c, r) ==
    /\ pc[c] = "preflight"
    /\ pf' = [pf EXCEPT ![c] = r]
    /\ uploadCalls' = [uploadCalls EXCEPT ![c] = @ + 1]
    /\ xfer' = [xfer EXCEPT ![c] = "running"]
    /\ pc' = [pc EXCEPT ![c] = "transferring"]
    /\ UNCHANGED <<locked, waiting, clientVars, sessionVars, capturedCommp,
                   hasResolvedForUser, promise, settles, releases,
                   preflightCalls, confirmed, logged, acqOrder>>
    /\ UNCHANGED apiVars

\* Variant of PreflightThrows: the preflight is attempted a second time
\* before the call gives up.
PreflightThrowsRetries(c) ==
    /\ pc[c] = "preflight"
    /\ IF preflightCalls[c] < 2
       THEN /\ preflightCalls' = [preflightCalls EXCEPT ![c] = @ + 1]
            /\ UNCHANGED <<pc, locked, waiting, clientVars, sessionVars,
                           capturedCommp, hasResolvedForUser, promise, settles,
                           releases, uploadCalls, pf, xfer, confirmed, logged,
                           acqOrder, apiVars>>
       ELSE SetupFailed(c, "PreflightError")

\* `await storage.preflightUpload(...)` throws: the executor's catch runs.
PreflightThrows(c) ==
    /\ pc[c] = "preflight"
    /\ SetupFailed(c, "PreflightError")

----------------------------------------------------------------------------
\* The callbacks passed to storage.upload and the handlers on its promise

\* Variant of OnUploadComplete: the result is delivered as soon as the
\* provider has accepted the payload.
OnUploadCompleteResolves(c) ==
    /\ xfer[c] = "running"
    /\ capturedCommp' = [capturedCommp EXCEPT ![c] = Commp(c)]
    /\ promise' = [promise EXCEPT ![c] = Settle(@, "resolved",
                     [kind |-> "result", commp |-> CommpToString(Commp(c)),
                      size |-> DataLength(c), proofSetId |-> storage[c].proofSetId])]
    /\ settles' = [settles EXCEPT ![c] = @ + 1]
    /\ UNCHANGED <<pc, locked, waiting, clientVars, sessionVars, hasResolvedForUser,
                   releases, preflightCalls, uploadCalls, pf, xfer, confirmed,
                   logged, acqOrder>>
    /\ UNCHANGED apiVars

\* Variant of OnUploadComplete: capturedCommp is one module-level variable
\* shared by all calls.
OnUploadCompleteShared(c) ==
    /\ xfer[c] = "running"
    /\ capturedCommp' = [d \in Calls |-> Commp(c)]
    /\ UNCHANGED <<pc, locked, waiting, clientVars, sessionVars, hasResolvedForUser,
                   promise, settles, releases, preflightCalls, uploadCalls, pf,
                   xfer, confirmed, logged, acqOrder>>
    /\ UNCHANGED apiVars

\* onUploadComplete(commp): capturedCommp = commp.
OnUploadComplete(c) ==
    /\ xfer[c] = "running"
    /\ capturedCommp' = [capturedCommp EXCEPT ![c] = Commp(c)]
    /\ UNCHANGED <<pc, locked, waiting, clientVars, sessionVars, hasResolvedForUser,
                   promise, settles, releases, preflightCalls, uploadCalls, pf,
                   xfer, confirmed, logged, acqOrder>>
    /\ UNCHANGED apiVars

\* resolve({commp: capturedCommp.toString(), size, ...}) in onRootAdded.
ResolveForUser(c) ==
    /\ promise' = [promise EXCEPT ![c] = Settle(@, "resolved", UploadResult(c))]
    /\ settles' = [settles EXCEPT ![c] = @ + 1]

\* Variant of OnRootAdded: the lock is released at the fast return instead of
\* being kept until the transfer settles.
OnRootAddedReleasesLock(c) ==
    /\ xfer[c] = "running"
    /\ IF hasResolvedForUser[c]
       THEN UNCHANGED <<hasResolvedForUser, promise, settles, pc, locked, waiting,
                        releases, acqOrder>>
       ELSE /\ hasResolvedForUser' = [hasResolvedForUser EXCEPT ![c] = TRUE]
            /\ IF capturedCommp[c] = 0
               THEN UNCHANGED <<promise, settles, pc, locked, waiting, releases,
                                acqOrder>>
               ELSE /\ ResolveForUser(c)
                    /\ ReleaseLock(c, pc[c])
    /\ UNCHANGED <<clientVars, sessionVars, capturedCommp, preflightCalls, uploadCalls,
                   pf, xfer, confirmed, logged>>
    /\ UNCHANGED apiVars

\* Variant of OnRootAdded: no hasResolvedForUser guard.
OnRootAddedUnguarded(c) ==
    /\ xfer[c] = "running"
    /\ hasResolvedForUser' = [hasResolvedForUser EXCEPT ![c] = TRUE]
    /\ IF capturedCommp[c] = 0
       THEN UNCHANGED <<promise, settles>>
       ELSE ResolveForUser(c)
    /\ UNCHANGED <<pc, locked, waiting, clientVars, sessionVars, capturedCommp, releases,
                   preflightCalls, uploadCalls, pf, xfer, confirmed, logged,
                   acqOrder>>
    /\ UNCHANGED apiVars

\* Variant of OnRootAdded: String(capturedCommp) instead of
\* capturedCommp.toString(), so a null capturedCommp is delivered too.
OnRootAddedResolvesUncaptured(c) ==
    /\ xfer[c] = "running"
    /\ IF hasResolvedForUser[c]
       THEN UNCHANGED <<hasResolvedForUser, promise, settles>>
       ELSE /\ hasResolvedForUser' = [hasResolvedForUser EXCEPT ![c] = TRUE]
            /\ ResolveForUser(c)
    /\ UNCHANGED <<pc, locked, waiting, clientVars, sessionVars, capturedCommp, releases,
                   preflightCalls, uploadCalls, pf, xfer, confirmed, logged,
                   acqOrder>>
    /\ UNCHANGED apiVars

\* onRootAdded(tx): returns if the flag is set; otherwise sets it and calls
\* resolve with the result.  capturedCommp.toString() on a null capturedCommp
\* throws before resolve is reached.
OnRootAdded(c) ==
    /\ xfer[c] = "running"
    /\ IF hasResolvedForUser[c]
       THEN UNCHANGED <<hasResolvedForUser, promise, settles>>
       ELSE /\ hasResolvedForUser' = [hasResolvedForUser EXCEPT ![c] = TRUE]
            /\ IF capturedCommp[c] = 0
               THEN UNCHANGED <<promise, settles>>
               ELSE ResolveForUser(c)
    /\ UNCHANGED <<pc, locked, waiting, clientVars, sessionVars, capturedCommp, releases,
                   preflightCalls, uploadCalls, pf, xfer, confirmed, logged,
                   acqOrder>>
    /\ UNCHANGED apiVars

\* Variant of OnRootConfirmed: the lock is released in the confirmation
\* callback.
OnRootConfirmedReleasesLock(c) ==
    /\ xfer[c] = "running"
    /\ confirmed' = [confirmed EXCEPT ![c] = TRUE]
    /\ ReleaseLock(c, pc[c])
    /\ UNCHANGED <<clientVars, sessionVars, capturedCommp, hasResolvedForUser, promise,
                   settles, preflightCalls, uploadCalls, pf, xfer, logged>>
    /\ UNCHANGED apiVars

\* onRootConfirmed(rootIds): logs only.
OnRootConfirmed(c) ==
    /\ xfer[c] = "running"
    /\ confirmed' = [confirmed EXCEPT ![c] = TRUE]
    /\ UNCHANGED <<pc, locked, waiting, clientVars, sessionVars, capturedCommp,
                   hasResolvedForUser, promise, settles, releases,
                   preflightCalls, uploadCalls, pf, xfer, logged, acqOrder>>
    /\ UNCHANGED apiVars

\* pf, confirmed and storage describe the transfer in flight and the service
\* it runs on; they end with it.
TransferEnds(c) ==
    /\ pf' = [pf EXCEPT ![c] = NoReport]
    /\ confirmed' = [confirmed EXCEPT ![c] = FALSE]
    /\ storage' = [storage EXCEPT ![c] = NoStorage]

\* The transfer's promise resolves: .then(() => releaseLock()).
TransferFulfilled(c) ==
    /\ xfer[c] = "running"
    /\ xfer' = [xfer EXCEPT ![c] = "fulfilled"]
    /\ ReleaseLock(c, "done")
    /\ TransferEnds(c)
    /\ UNCHANGED <<clientVars, createStorageCalls, numProofSets, capturedCommp, hasResolvedForUser, promise,
                   settles, preflightCalls, uploadCalls, logged>>
    /\ UNCHANGED apiVars

\* reject(error) in the .catch handler.
RejectForUser(c) ==
    /\ promise' = [promise EXCEPT ![c] = Settle(@, "rejected", Err("TransferError"))]
    /\ settles' = [settles EXCEPT ![c] = @ + 1]

\* Variant of TransferRejected: releaseLock() sits inside the
\* `if (!hasResolvedForUser)` block.
TransferRejectedReleasesIfUnresolved(c) ==
    /\ xfer[c] = "running"
    /\ xfer' = [xfer EXCEPT ![c] = "rejected"]
    /\ logged' = [logged EXCEPT ![c] = Log("uploadFailed", "TransferError")]
    /\ IF ~hasResolvedForUser[c]
       THEN /\ RejectForUser(c)
            /\ ReleaseLock(c, "done")
       ELSE /\ pc' = [pc EXCEPT ![c] = "done"]
            /\ UNCHANGED <<promise, settles, locked, waiting, releases, acqOrder>>
    /\ TransferEnds(c)
    /\ UNCHANGED <<clientVars, createStorageCalls, numProofSets, capturedCommp, hasResolvedForUser,
                   preflightCalls, uploadCalls>>
    /\ UNCHANGED apiVars

\* Variant of TransferRejected: reject(error) without the
\* `if (!hasResolvedForUser)` test.
TransferRejectedAlwaysRejects(c) ==
    /\ xfer[c] = "running"
    /\ xfer' = [xfer EXCEPT ![c] = "rejected"]
    /\ logged' = [logged EXCEPT ![c] = Log("uploadFailed", "TransferError")]
    /\ RejectForUser(c)
    /\ ReleaseLock(c, "done")
    /\ TransferEnds(c)
    /\ UNCHANGED <<clientVars, createStorageCalls, numProofSets, capturedCommp, hasResolvedForUser,
                   preflightCalls, uploadCalls>>
    /\ UNCHANGED apiVars

\* Variant of TransferRejected: the handler releases the lock and never
\* rejects the caller's promise.
TransferRejectedNeverRejects(c) ==
    /\ xfer[c] = "running"
    /\ xfer' = [xfer EXCEPT ![c] = "rejected"]
    /\ logged' = [logged EXCEPT ![c] = Log("uploadFailed", "TransferError")]
    /\ ReleaseLock(c, "done")
    /\ TransferEnds(c)
    /\ UNCHANGED <<clientVars, createStorageCalls, numProofSets, capturedCommp, hasResolvedForUser, promise,
                   settles, preflightCalls, uploadCalls>>
    /\ UNCHANGED apiVars

\* The transfer's promise rejects: .catch(error => ...) logs, rejects the
\* caller's promise unless the flag is set, and calls releaseLock().
TransferRejected(c) ==
    /\ xfer[c] = "running"
    /\ xfer' = [xfer EXCEPT ![c] = "rejected"]
    /\ logged' = [logged EXCEPT ![c] = Log("uploadFailed", "TransferError")]
    /\ IF ~hasResolvedForUser[c]
       THEN RejectForUser(c)
       ELSE UNCHANGED <<promise, settles>>
    /\ ReleaseLock(c, "done")
    /\ TransferEnds(c)
    /\ UNCHANGED <<clientVars, createStorageCalls, numProofSets, capturedCommp, hasResolvedForUser,
                   preflightCalls, uploadCalls>>
    /\ UNCHANGED apiVars

----------------------------------------------------------------------------
Next ==
    \E c \in Calls :
        \/ Call(c)
        \/ SynapseCreate(c)
        \/ GetSynapseReturns(c)
        \/ GetSynapseThrows(c)
        \/ OnProviderSelected(c)
        \/ \E id \in 1..MaxProofSets : OnProofSetResolved(c, id)
        \/ OnProofSetCreationStarted(c)
        \/ \E live \in BOOLEAN : OnProofSetCreationProgress(c, live)
        \/ CreateStorageReturns(c)
        \/ CreateStorageThrows(c)
        \/ \E r \in PreflightReports : PreflightReturns(c, r)
        \/ PreflightThrows(c)
        \/ OnUploadComplete(c)
        \/ OnRootAdded(c)
        \/ OnRootConfirmed(c)
        \/ TransferFulfilled(c)
        \/ TransferRejected(c)

Spec == Init /\ [][Next]_vars

\* The SDK delivering each milestone once and in the documented order:
\* accepted, submitted, confirmed, then the transfer's promise resolves; a
\* failure can come at any point.
NextOrdered ==
    \E c \in Calls :
        \/ Call(c)
        \/ SynapseCreate(c)
        \/ GetSynapseReturns(c)
        \/ GetSynapseThrows(c)
        \/ OnProviderSelected(c)
        \/ \E id \in 1..MaxProofSets : OnProofSetResolved(c, id)
        \/ OnProofSetCreationStarted(c)
        \/ \E live \in BOOLEAN : OnProofSetCreationProgress(c, live)
        \/ CreateStorageReturns(c)
        \/ CreateStorageThrows(c)
        \/ \E r \in PreflightReports : PreflightReturns(c, r)
        \/ PreflightThrows(c)
        \/ (capturedCommp[c] = 0 /\ ~hasResolvedForUser[c] /\ OnUploadComplete(c))
        \/ (capturedCommp[c] # 0 /\ ~hasResolvedForUser[c] /\ OnRootAdded(c))
        \/ (hasResolvedForUser[c] /\ ~confirmed[c] /\ OnRootConfirmed(c))
        \/ (confirmed[c] /\ TransferFulfilled(c))
        \/ TransferRejected(c)

SpecOrdered == Init /\ [][NextOrdered]_vars

\* The earlier uploadData of services/synapse.js, which takes no lock: call c
\* reaches `await getSynapse()` at once.
UnlockedCall(c) ==
    /\ pc[c] = "init"
    /\ \A d \in Calls : d < c => pc[d] # "init"
    /\ pc' = [pc EXCEPT ![c] = "getSynapse"]
    /\ UNCHANGED <<locked, waiting, clientVars, sessionVars, capturedCommp,
                   hasResolvedForUser, promise, settles, releases,
                   preflightCalls, uploadCalls, pf, xfer, confirmed, logged,
                   acqOrder>>
    /\ UNCHANGED apiVars

\* `const synapse = await getSynapse()` of the lock-free uploadData returns.
UnlockedGetSynapseReturns(c) ==
    /\ GetSynapse(c)
    /\ pc' = [pc EXCEPT ![c] = "createStorage"]
    /\ UNCHANGED <<locked, waiting, sessionVars, capturedCommp,
                   hasResolvedForUser, promise, settles, releases,
                   preflightCalls, uploadCalls, pf, xfer, confirmed, logged,
                   acqOrder>>
    /\ UNCHANGED apiVars

\* Synapse.create throws in the lock-free uploadData: the async function's
\* promise is rejected.
UnlockedGetSynapseThrows(c) ==
    /\ pc[c] = "create"
    /\ pc' = [pc EXCEPT ![c] = "done"]
    /\ promise' = [promise EXCEPT ![c] = Settle(@, "rejected", Err("SynapseCreateError"))]
    /\ UNCHANGED <<locked, waiting, clientVars, sessionVars, capturedCommp,
                   hasResolvedForUser, settles, releases, preflightCalls,
                   uploadCalls, pf, xfer, confirmed, logged, acqOrder>>
    /\ UNCHANGED apiVars

\* Concurrent lock-free calls up to the return of getSynapse.
NextUnlocked ==
    \E c \in Calls :
        \/ UnlockedCall(c)
        \/ SynapseCreate(c)
        \/ UnlockedGetSynapseReturns(c)
        \/ UnlockedGetSynapseThrows(c)

SpecUnlocked == Init /\ [][NextUnlocked]_vars

\* The SDK's promises settle: a pending setup step returns or throws, and a
\* started transfer resolves or rejects.
Fairness ==
    \A c \in Calls :
        /\ WF_vars(SynapseCreate(c) \/ GetSynapseReturns(c) \/ GetSynapseThrows(c))
        /\ WF_vars(CreateStorageReturns(c) \/ CreateStorageThrows(c))
        /\ WF_vars((\E r \in PreflightReports : PreflightReturns(c, r))
                   \/ PreflightThrows(c))
        /\ WF_vars(TransferFulfilled(c) \/ TransferRejected(c))

SpecFair == Init /\ [][Next]_vars /\ Fairness

----------------------------------------------------------------------------
\* Properties

\* acquireLock has returned to call c.
Acquired(c) == \E i \in 1..Len(acqOrder) : acqOrder[i] = c

\* Call c is between the return of its acquireLock and its releaseLock.
Holding(c) == Acquired(c) /\ releases[c] = 0

\* Call c is in the LOCK_HELD-or-later part of uploadData.
InCritical(c) ==
    pc[c] \in {"getSynapse", "create", "createStorage", "preflight", "transferring"}

\* C1: mutual exclusion.  At every instant at most one call is between the
\* return of its acquireLock and its releaseLock, at most one call is in the
\* LOCK_HELD-or-later states, and the lock is taken whenever there is one.
MutualExclusion ==
    /\ Cardinality({c \in Calls : Holding(c) \/ InCritical(c)}) <= 1
    /\ (\E c \in Calls : Holding(c) \/ InCritical(c)) => locked

\* Two calls queue while a third has its transfer in flight.
MutualExclusionWitness ==
    \E c \in Calls : pc[c] = "transferring" /\ Len(waiting) = 2

\* C2: always-release.  A call never calls releaseLock twice; a call that has
\* finished has called it exactly once; and from the return of its
\* acquireLock until that release the call has not released, the lock is
\* taken and the call is the latest one to have acquired it.
AlwaysRelease ==
    \A c \in Calls :
        /\ releases[c] <= 1
        /\ pc[c] = "done" => releases[c] = 1
        /\ pc[c] \in {"init", "waiting"} => releases[c] = 0 /\ ~Acquired(c)
        /\ InCritical(c) => /\ releases[c] = 0
                            /\ locked
                            /\ acqOrder # <<>>
                            /\ acqOrder[Len(acqOrder)] = c

\* Three finished calls: a setup failure, a failure after the result was
\* delivered, and a success.
AlwaysReleaseWitness ==
    /\ \A c \in Calls : c <= 3 => pc[c] = "done" /\ releases[c] = 1
    /\ logged[1].kind = "setupFailed"
    /\ xfer[2] = "rejected" /\ promise[2].state = "resolved"
    /\ xfer[3] = "fulfilled" /\ promise[3].state = "resolved"

\* C3: exactly-once delivery.  resolve/reject is invoked at most once per
\* call; the promise is resolved only with a result and only once the
\* submitted milestone has fired, and rejected only when it has not.
ExactlyOnceDelivery ==
    \A c \in Calls :
        /\ settles[c] <= 1
        /\ (settles[c] = 0) <=> (promise[c].state = "pending")
        /\ promise[c].state = "resolved" =>
              hasResolvedForUser[c] /\ promise[c].value.kind = "result"
        /\ promise[c].state = "rejected" =>
              ~hasResolvedForUser[c] /\ promise[c].value.kind = "error"

\* The transfer failed after the result had been delivered.
ExactlyOnceDeliveryWitness ==
    \E c \in Calls : /\ xfer[c] = "rejected"
                     /\ promise[c].state = "resolved"
                     /\ settles[c] = 1

\* The preflight of call c reported allowanceCheck.sufficient = false.
Insufficient(c) == pf[c].kind = "report" /\ ~pf[c].sufficient

\* C4: no transfer without capacity.  If the preflight of a call reports
\* insufficient allowance, storage.upload is not invoked for that call.
NoTransferWithoutCapacity ==
    \A c \in Calls : Insufficient(c) => uploadCalls[c] = 0

\* The error section 4.3 asks for: it carries the required and available
\* amounts of the report.
CapacityError(r) ==
    [kind |-> "error", name |-> "InsufficientCapacityError",
     required |-> r.required, available |-> r.current]

\* C9: insufficient capacity outcome.  When the preflight reports
\* insufficient allowance with amounts required and available, the call is
\* rejected with a capacity error carrying those amounts, no result is
\* delivered, no transfer is in flight and the lock has been released.
InsufficientCapacityFails ==
    \A c \in Calls :
        Insufficient(c) =>
            /\ promise[c] = [state |-> "rejected", value |-> CapacityError(pf[c])]
            /\ xfer[c] = "none"
            /\ releases[c] = 1

\* C5: two-phase completion, with the milestones in the order accepted,
\* submitted, confirmed.  The result is delivered exactly when the submitted
\* milestone has fired, whether or not the confirmed one has; while the
\* transfer is still running after the delivery the call holds the lock; and
\* a call whose transfer was started releases the lock only in the step in
\* which the transfer settles, which for a successful transfer comes after
\* the confirmed milestone.
TwoPhaseCompletion ==
    /\ [](\A c \in Calls :
            /\ (promise[c].state = "resolved") <=> hasResolvedForUser[c]
            /\ (hasResolvedForUser[c] /\ xfer[c] = "running") =>
                  /\ locked
                  /\ releases[c] = 0
                  /\ \A d \in Calls : InCritical(d) <=> d = c
            /\ (uploadCalls[c] = 1 /\ releases[c] >= 1) =>
                  xfer[c] \in {"fulfilled", "rejected"})
    /\ [][\A c \in Calls :
            (uploadCalls[c] = 1 /\ releases'[c] # releases[c]) =>
                /\ xfer[c] = "running"
                /\ xfer'[c] \in {"fulfilled", "rejected"}
                /\ xfer'[c] = "fulfilled" =>
                      confirmed[c] /\ promise[c].state = "resolved"]_vars

\* The result has been delivered, the confirmed milestone has not arrived,
\* and the lock is still taken.
TwoPhaseCompletionWitness ==
    \E c \in Calls : /\ promise[c].state = "resolved"
                     /\ xfer[c] = "running"
                     /\ ~confirmed[c]
                     /\ locked
                     /\ releases[c] = 0

\* C6: FIFO fairness.  Calls are numbered in the order they invoke
\* uploadData; they acquire the lock in that order, and the queue holds the
\* next calls in that order.
FifoAdmission ==
    /\ \A i \in 1..Len(acqOrder) : acqOrder[i] = i
    /\ \A i \in 1..Len(waiting) : waiting[i] = Len(acqOrder) + i

\* A has released, B has just been handed the lock and C is still queued.
FifoAdmissionWitness ==
    /\ NumCalls >= 3
    /\ acqOrder = <<1, 2>>
    /\ releases[1] = 1
    /\ pc[2] = "getSynapse"
    /\ waiting = <<3>>

\* C7: late failure.  When the transfer has failed after the result was
\* delivered, the promise is still resolved with that result, resolve/reject
\* has been invoked once only, the failure has been logged and the lock has
\* been released.
LateFailure ==
    \A c \in Calls :
        (xfer[c] = "rejected" /\ promise[c].state = "resolved") =>
            /\ promise[c].value.kind = "result"
            /\ promise[c].value.commp = CommpToString(capturedCommp[c])
            /\ promise[c].value.size = DataLength(c)
            /\ settles[c] = 1
            /\ logged[c] = Log("uploadFailed", "TransferError")
            /\ releases[c] = 1
            /\ pc[c] = "done"

\* A late failure of the first call, after which the second call got the lock.
LateFailureWitness ==
    /\ xfer[1] = "rejected"
    /\ promise[1].state = "resolved"
    /\ logged[1].kind = "uploadFailed"
    /\ Acquired(2)

\* C8: early transfer failure.  When the transfer has failed before the
\* submitted milestone fired, the promise is rejected with the transfer
\* error, that reject is the only settlement, and the lock has been released.
EarlyTransferFailure ==
    \A c \in Calls :
        (xfer[c] = "rejected" /\ ~hasResolvedForUser[c]) =>
            /\ promise[c] = [state |-> "rejected", value |-> Err("TransferError")]
            /\ settles[c] = 1
            /\ releases[c] = 1
            /\ pc[c] = "done"

\* The transfer failed between the accepted and the submitted milestone.
EarlyTransferFailureWitness ==
    \E c \in Calls : /\ xfer[c] = "rejected"
                     /\ capturedCommp[c] # 0
                     /\ ~hasResolvedForUser[c]
                     /\ promise[c].state = "rejected"

\* C10: session resolution failure.  When getSynapse or createStorage has
\* thrown, the promise is rejected with that error as its only settlement,
\* the lock has been released, and neither preflightUpload nor
\* storage.upload has been invoked for the call.
SessionResolutionFailure ==
    \A c \in Calls :
        (logged[c].kind = "setupFailed"
            /\ logged[c].error \in {"SynapseCreateError", "CreateStorageError"}) =>
            /\ promise[c] = [state |-> "rejected", value |-> Err(logged[c].error)]
            /\ settles[c] = 1
            /\ releases[c] = 1
            /\ pc[c] = "done"
            /\ preflightCalls[c] = 0
            /\ uploadCalls[c] = 0
            /\ xfer[c] = "none"

\* createStorage threw for a call that had queued for the lock, and the
\* next call was handed the lock.
SessionResolutionFailureWitness ==
    \E c \in Calls : /\ logged[c] = Log("setupFailed", "CreateStorageError")
                     /\ promise[c].state = "rejected"
                     /\ Acquired(c)
                     /\ \E d \in Calls : d # c /\ InCritical(d)

\* C11: no lock starvation.  With every setup step and every started
\* transfer settling, a call suspended in acquireLock eventually gets the
\* lock, whatever happens to the calls ahead of it.
NoLockStarvation ==
    \A c \in Calls : (pc[c] = "waiting") ~> Acquired(c)

\* The third call got the lock after a setup failure of the first call and
\* a transfer failure of the second.
NoLockStarvationWitness ==
    /\ NumCalls >= 3
    /\ Acquired(3)
    /\ logged[1].kind = "setupFailed"
    /\ xfer[2] = "rejected"
    /\ releases[1] = 1 /\ releases[2] = 1

\* C12: the caller always gets an outcome.  A call whose transfer has
\* terminated (the call is finished) has a settled promise.
CallerGetsOutcome ==
    \A c \in Calls : pc[c] = "done" => promise[c].state # "pending"

\* C13: full serialisation through confirmation.  While a call has its
\* result delivered and its transfer still running, no other call is in
\* session resolution, preflight or transfer; at most one transfer runs at a
\* time; and a call is in its critical section only when every call that
\* acquired the lock before it has released it.
FullSerialisation ==
    /\ \A a \in Calls :
          (promise[a].state = "resolved" /\ xfer[a] = "running") =>
              \A b \in Calls \ {a} : ~InCritical(b) /\ xfer[b] # "running"
    /\ Cardinality({c \in Calls : xfer[c] = "running"}) <= 1
    /\ \A i \in 1..Len(acqOrder) : \A j \in 1..Len(acqOrder) :
          (i < j /\ InCritical(acqOrder[j])) =>
              (releases[acqOrder[i]] = 1 /\ xfer[acqOrder[i]] # "running")

\* A call is past its fast return, confirmed but not yet settled, and another
\* call is queued behind it.
FullSerialisationWitness ==
    \E a \in Calls : /\ promise[a].state = "resolved"
                     /\ xfer[a] = "running"
                     /\ confirmed[a]
                     /\ Len(waiting) >= 1

\* C16: the accepted milestone alone never delivers.  The promise is not
\* resolved in any state in which the submitted milestone has not fired, and
\* a step that captures the content identifier leaves the promise, the
\* number of settlements and the delivered flag as they were.
AcceptedAloneNeverDelivers ==
    /\ [](\A c \in Calls : ~hasResolvedForUser[c] => promise[c].state # "resolved")
    /\ [][\A c \in Calls :
            capturedCommp'[c] # capturedCommp[c] =>
                /\ capturedCommp'[c] = Commp(c)
                /\ promise'[c] = promise[c]
                /\ settles'[c] = settles[c]
                /\ hasResolvedForUser'[c] = hasResolvedForUser[c]]_vars

\* The payload was accepted, the submitted milestone has not fired and the
\* caller is still waiting.
AcceptedAloneNeverDeliversWitness ==
    \E c \in Calls : /\ xfer[c] = "running"
                     /\ capturedCommp[c] # 0
                     /\ ~hasResolvedForUser[c]
                     /\ promise[c].state = "pending"

\* A milestone or the settlement of the transfer of call a happens in this step.
TransferEventOf(a) ==
    \/ capturedCommp'[a] # capturedCommp[a]
    \/ hasResolvedForUser'[a] # hasResolvedForUser[a]
    \/ confirmed'[a] # confirmed[a]
    \/ xfer'[a] # xfer[a]

\* C19: run-scoped transfer state.  A milestone or failure of the transfer
\* of one call leaves the captured content identifier, the delivered flag,
\* the promise and the settlement count of every other call unchanged.
RunScopedState ==
    [][\A a \in Calls : \A b \in Calls \ {a} :
          TransferEventOf(a) =>
              /\ capturedCommp'[b] = capturedCommp[b]
              /\ hasResolvedForUser'[b] = hasResolvedForUser[b]
              /\ promise'[b] = promise[b]
              /\ settles'[b] = settles[b]]_vars

\* One call keeps its delivered result while a later call has received its
\* own.
RunScopedStateWitness ==
    \E a \in Calls : \E b \in Calls \ {a} :
        /\ promise[a].state = "resolved"
        /\ pc[a] = "done"
        /\ xfer[b] = "running"
        /\ promise[b].state = "resolved"
        /\ promise[a].value # promise[b].value

----------------------------------------------------------------------------
\* C17: No automatic retries.  Within one uploadData call createStorage,
\* preflightUpload and storage.upload are each invoked at most once, and a
\* call in which a step has failed invokes none of them again.
SdkCalls(c) == <<createStorageCalls[c], preflightCalls[c], uploadCalls[c]>>

Failed(c) == logged[c] # NoLog

NoAutomaticRetries ==
    /\ [](\A c \in Calls :
            /\ createStorageCalls[c] <= 1
            /\ preflightCalls[c] <= 1
            /\ uploadCalls[c] <= 1)
    /\ [][\A c \in Calls : Failed(c)' => SdkCalls(c)' = SdkCalls(c)]_vars

\* A later call's preflight has thrown after an earlier call ended: each step
\* before it was invoked once and the transfer was never started.
NoAutomaticRetriesWitness ==
    \E c \in Calls :
        /\ c > 1
        /\ logged[c] = Log("setupFailed", "PreflightError")
        /\ SdkCalls(c) = <<1, 1, 0>>
        /\ pc[c] = "done"

----------------------------------------------------------------------------
\* C14: Session reuse.  A call that supplies the id of a live proof set gets
\* no negotiation, so no creation-submitted event: createStorage returns the
\* service of that proof set without a new proof set appearing, and the
\* result the call delivers carries the id it supplied, the same id for
\* every call that supplies it.
NegotiationStages ==
    {"providerSelected", "proofSetResolved", "creationStarted", "proofSetLive"}

\* The step delivers call c's result.
Delivers(c) == promise'[c] # promise[c] /\ promise'[c].state = "resolved"

SessionReuse ==
    /\ [](\A c \in Calls :
            storage[c].stage \in NegotiationStages => ~storage[c].optionLive)
    /\ [][\A c \in Calls :
            /\ (/\ storage[c].stage = "start"
                /\ storage[c].optionLive
                /\ storage'[c].stage = "ready")
               => /\ storage'[c].reused
                  /\ storage'[c].proofSetId = storage[c].option
                  /\ numProofSets' = numProofSets
            /\ (/\ storage[c].stage = "ready"
                /\ storage[c].reused
                /\ Delivers(c))
               => promise'[c].value.proofSetId = storage[c].proofSetId]_vars

\* Two calls in sequence have delivered results with the id of the only
\* proof set there is; the later one got it by reuse.
SessionReuseWitness ==
    \E d \in Calls : \E c \in Calls :
        /\ d < c
        /\ pc[d] = "done"
        /\ promise[d].state = "resolved"
        /\ storage[c].stage = "ready"
        /\ storage[c].reused
        /\ promise[c].state = "resolved"
        /\ promise[c].value.proofSetId = promise[d].value.proofSetId
        /\ numProofSets = 1

----------------------------------------------------------------------------
\* C15: Result content.  A delivered result holds the string of the CommP
\* that onUploadComplete of the same call reported, never that of a null
\* capturedCommp, the length of the call's payload, and the proofSetId of the
\* storage service createStorage returned to the call.
ResultContent ==
    /\ [](\A c \in Calls :
            promise[c].state = "resolved"
            => /\ promise[c].value.commp = CommpToString(Commp(c))
               /\ promise[c].value.size = DataLength(c)
               /\ promise[c].value.proofSetId \in 1..MaxProofSets)
    /\ [][\A c \in Calls :
            Delivers(c)
            => /\ capturedCommp[c] = Commp(c)
               /\ storage[c].stage = "ready"
               /\ promise'[c].value.proofSetId = storage[c].proofSetId]_vars

\* The second call has delivered its own CommP and length with the id of the
\* second proof set, which its storage service is on.
ResultContentWitness ==
    /\ promise[2].state = "resolved"
    /\ storage[2].stage = "ready"
    /\ storage[2].proofSetId = 2
    /\ promise[2].value = [kind |-> "result", commp |-> CommpToString(Commp(2)),
                           size |-> DataLength(2), proofSetId |-> 2]

----------------------------------------------------------------------------
\* C18: Session lifecycle events have no control-flow effect.  A step in
\* which onProviderSelected, onProofSetResolved, onProofSetCreationStarted,
\* onProofSetCreationProgress or onRootConfirmed is delivered leaves the lock,
\* its queue, the position of every call, hasResolvedForUser, capturedCommp
\* and the callers' promises as they were.
ControlState ==
    <<pc, locked, waiting, acqOrder, releases, hasResolvedForUser, capturedCommp,
      promise, settles>>

LifecycleEvent(c) ==
    \/ storage'[c] # storage[c] /\ storage'[c].stage \in NegotiationStages
    \/ confirmed'[c] /\ ~confirmed[c]

LifecycleEventsInert ==
    [][\A c \in Calls : LifecycleEvent(c) => UNCHANGED ControlState]_vars

\* The first call went through the creation of the first proof set and its
\* transfer has been confirmed after the result was delivered: the lock is
\* still taken and the next call still waits.
LifecycleEventsInertWitness ==
    /\ numProofSets = 1
    /\ storage[1].stage = "ready"
    /\ storage[1].proofSetId = 1
    /\ ~storage[1].reused
    /\ confirmed[1]
    /\ xfer[1] = "running"
    /\ promise[1].state = "resolved"
    /\ locked
    /\ waiting = <<2>>

----------------------------------------------------------------------------
\* C20: Single storage client.  Synapse.create completes successfully at most
\* once, and all callers that got a client from getSynapse got the same one.
SingleStorageClient ==
    /\ creates <= 1
    /\ \A c \in Calls : \A d \in Calls :
           synapseOf[c] # 0 /\ synapseOf[d] # 0 => synapseOf[c] = synapseOf[d]

----------------------------------------------------------------------------
\* C21: A failed setup leaves the orchestrator reusable.  The step in which
\* Synapse.create, createStorage or preflightUpload throws leaves the failed
\* call without the lock, the lock free unless a waiter took it over, and
\* synapseInstance null when the creation failed and otherwise the client the
\* call was using; synapseInstance is never anything but null or a client
\* that Synapse.create returned.
SetupFails(c) == logged[c] = NoLog /\ logged'[c].kind = "setupFailed"

ReusableAfterFailedSetup ==
    /\ [](/\ synapseInstance \in 0..creates
          /\ \A c \in Calls :
                logged[c].kind = "setupFailed" => pc[c] = "done" /\ ~Holding(c)
          /\ locked => \E d \in Calls : Holding(d) /\ InCritical(d))
    /\ [][\A c \in Calls :
            SetupFails(c)
            => /\ locked' <=> (waiting # <<>>)
               /\ IF logged'[c].error = "SynapseCreateError"
                  THEN synapseInstance' = 0
                  ELSE synapseInstance' # 0 /\ synapseInstance' = synapseOf[c]]_vars

\* After a call whose Synapse.create threw and a call whose preflight threw,
\* the third call has run its own setup and delivered its result.
ReusableAfterFailedSetupWitness ==
    /\ logged[1] = Log("setupFailed", "SynapseCreateError")
    /\ logged[2] = Log("setupFailed", "PreflightError")
    /\ synapseInstance = synapseOf[3]
    /\ SdkCalls(3) = <<1, 1, 1>>
    /\ promise[3].state = "resolved"

----------------------------------------------------------------------------
\* controllers/upload.controller.js and controllers/project.controller.js:
\* one request, from its arrival to the end of its handler.  uploadData, the
\* database, the PDF and AI services and createProject are the environment:
\* each of their promises resolves or rejects; the promise of uploadData may
\* also stay pending.

\* Everything but the request being handled.
notControllerVars == <<uploadVars, mintVars, analyzeVars>>

UploadHandlers == {"uploadAndAddRoot", "uploadAndAddGenome", "uploadAndAddSpectrum"}

\* processAndUploadHandler, and its later version that records encryption.
ProcessHandlers == {"processAndUpload", "processAndUploadEncrypted"}

DataTypes == {"none", "paper", "experiment", "analysis", "other"}

\* The requests: file is req.file, field the required body field of the
\* handler (organism, compound, name), metadata the spectrum's JSON text.
Requests ==
    { [handler |-> "uploadAndAddRoot", file |-> f, field |-> TRUE,
       metadata |-> "none", dataType |-> "none", title |-> FALSE] :
        f \in BOOLEAN }
    \cup
    { [handler |-> "uploadAndAddGenome", file |-> f, field |-> o,
       metadata |-> "none", dataType |-> "none", title |-> FALSE] :
        f \in BOOLEAN, o \in BOOLEAN }
    \cup
    { [handler |-> "uploadAndAddSpectrum", file |-> f, field |-> o,
       metadata |-> m, dataType |-> "none", title |-> FALSE] :
        f \in BOOLEAN, o \in BOOLEAN, m \in {"none", "valid", "invalid"} }
    \cup
    { [handler |-> h, file |-> f, field |-> TRUE,
       metadata |-> "none", dataType |-> d, title |-> t] :
        h \in ProcessHandlers, f \in BOOLEAN, d \in DataTypes, t \in BOOLEAN }
    \cup
    { [handler |-> "createProject", file |-> FALSE, field |-> n,
       metadata |-> "none", dataType |-> "none", title |-> FALSE] :
        n \in BOOLEAN }

\* res.status(status).json(...)
Respond(status) == hsent' = Append(hsent, status)

\* The finally block of processAndUploadHandler: fs.unlink(tempFilePath).  The
\* other handlers have none.
Finally(r) ==
    hunlinks' = IF r.handler \in ProcessHandlers THEN hunlinks + 1 ELSE hunlinks

\* catch (error) of the upload handlers: console.error, next(error); then the
\* finally block.
CatchNext(r, err) ==
    /\ herror' = err
    /\ hnext' = hnext + 1
    /\ hpc' = "done"
    /\ Finally(r)
    /\ UNCHANGED <<hsent, hrows>>

\* The handler returns a response with this status: before the try block
\* when inTry is false, otherwise through the finally block.
Return(r, status, inTry) ==
    /\ Respond(status)
    /\ hpc' = "done"
    /\ IF inTry THEN Finally(r) ELSE UNCHANGED hunlinks
    /\ UNCHANGED <<herror, hnext, hrows>>

\* uploadData(...) is called and awaited.
AwaitUploadData ==
    /\ hupload' = "pending"
    /\ hpc' = "uploadData"
    /\ UNCHANGED <<herror, hsent, hnext, hrows, hunlinks>>

\* uploadAndAddRootHandler, uploadAndAddGenomeHandler and
\* uploadAndAddSpectrumHandler up to `await uploadData(...)`: 400 when the file
\* or the required field is missing or the spectrum's metadata is not JSON.
UploadAndAddHandler(r) ==
    /\ hpc = "idle"
    /\ r.handler \in UploadHandlers
    /\ hreq' = r
    /\ IF ~r.file \/ ~r.field \/ r.metadata = "invalid"
       THEN Return(r, 400, TRUE) /\ UNCHANGED hupload
       ELSE AwaitUploadData
    /\ UNCHANGED notControllerVars

\* processAndUploadHandler up to `await uploadData(fileBuffer)`: 400 before
\* the try block when the file or dataType is missing; fs.readFileSync is
\* inside the try block and may throw.
ProcessAndUploadHandler(r, readable) ==
    /\ hpc = "idle"
    /\ r.handler \in ProcessHandlers
    /\ hreq' = r
    /\ IF ~r.file \/ r.dataType = "none"
       THEN Return(r, 400, FALSE) /\ UNCHANGED hupload
       ELSE IF ~readable
            THEN CatchNext(r, "ReadError") /\ UNCHANGED hupload
            ELSE AwaitUploadData
    /\ UNCHANGED notControllerVars

\* createProjectHandler up to `await projectService.createProject(...)`.
CreateProjectHandler(r) ==
    /\ hpc = "idle"
    /\ r.handler = "createProject"
    /\ hreq' = r
    /\ IF ~r.field
       THEN Return(r, 400, TRUE)
       ELSE /\ hpc' = "createProject"
            /\ UNCHANGED <<herror, hsent, hnext, hrows, hunlinks>>
    /\ UNCHANGED <<hupload, notControllerVars>>

\* Variant of UploadDataResolves: the handler does not wait for uploadData
\* and goes on as soon as it has called it.
UploadDataNotAwaited ==
    /\ hpc = "uploadData"
    /\ hpc' = "query"
    /\ UNCHANGED <<hreq, hupload, herror, hsent, hnext, hrows, hunlinks,
                   notControllerVars>>

\* The promise of uploadData resolves and the handler goes on to its next
\* await, return or throw.
UploadDataResolves ==
    /\ hpc = "uploadData"
    /\ hupload' = "resolved"
    /\ IF hreq.handler \in UploadHandlers
       THEN /\ hpc' = "query"
            /\ UNCHANGED <<herror, hsent, hnext, hrows, hunlinks>>
       ELSE IF hreq.dataType = "paper"
            THEN /\ hpc' = "extract"
                 /\ UNCHANGED <<herror, hsent, hnext, hrows, hunlinks>>
            ELSE IF hreq.dataType \in {"experiment", "analysis"}
                 THEN IF hreq.title
                      THEN /\ hpc' = "query"
                           /\ UNCHANGED <<herror, hsent, hnext, hrows, hunlinks>>
                      ELSE CatchNext(hreq, "TitleRequired")
                 ELSE Return(hreq,
                             IF hreq.handler = "processAndUpload" THEN 400 ELSE 200,
                             TRUE)
    /\ UNCHANGED <<hreq, notControllerVars>>

\* The promise of uploadData rejects: the catch block runs.
UploadDataRejects ==
    /\ hpc = "uploadData"
    /\ hupload' = "rejected"
    /\ CatchNext(hreq, "UploadError")
    /\ UNCHANGED <<hreq, notControllerVars>>

\* pdfService.extractTextFromBuffer and aiService.extractMetadataFromText
\* have returned (or were not needed); the INSERT is next.
ExtractReturns ==
    /\ hpc = "extract"
    /\ hpc' = "query"
    /\ UNCHANGED <<hreq, hupload, herror, hsent, hnext, hrows, hunlinks,
                   notControllerVars>>

ExtractThrows ==
    /\ hpc = "extract"
    /\ CatchNext(hreq, "ExtractError")
    /\ UNCHANGED <<hreq, hupload, notControllerVars>>

\* `await query('INSERT ...')` returns; the handler answers 200.
QueryReturns ==
    /\ hpc = "query"
    /\ hrows' = hrows + 1
    /\ Respond(200)
    /\ hpc' = "done"
    /\ Finally(hreq)
    /\ UNCHANGED <<hreq, hupload, herror, hnext, notControllerVars>>

QueryThrows ==
    /\ hpc = "query"
    /\ CatchNext(hreq, "QueryError")
    /\ UNCHANGED <<hreq, hupload, notControllerVars>>

\* createProject returns the new row; the handler answers 201.
CreateProjectReturns ==
    /\ hpc = "createProject"
    /\ Return(hreq, 201, TRUE)
    /\ UNCHANGED <<hreq, hupload, notControllerVars>>

\* The INSERT's error codes: the unique-constraint violation and any other.
PgErrorCodes == {"23505", "other"}

\* createProject throws an error with this code.  For 23505 the catch block
\* builds the 409 message from `name`, which is declared with const inside
\* the try block and is not in scope in the catch block: evaluating it throws
\* a ReferenceError, and the handler's promise rejects with nothing sent.
\* Any other error goes to next(error).
CreateProjectThrows(code) ==
    /\ hpc = "createProject"
    /\ herror' = code
    /\ IF code = "23505"
       THEN /\ hpc' = "rejected"
            /\ UNCHANGED hnext
       ELSE /\ hpc' = "done"
            /\ hnext' = hnext + 1
    /\ UNCHANGED <<hreq, hupload, hsent, hrows, hunlinks, notControllerVars>>

\* A router that handles rejected handler promises (Express 5) passes the
\* rejection to next; one that does not (Express 4) leaves the request as it
\* is.
RouterForwardsRejection ==
    /\ hpc = "rejected"
    /\ hnext' = hnext + 1
    /\ hpc' = "done"
    /\ UNCHANGED <<hreq, hupload, herror, hsent, hrows, hunlinks,
                   notControllerVars>>

NextControllers ==
    \/ \E r \in Requests : UploadAndAddHandler(r)
    \/ \E r \in Requests : \E readable \in BOOLEAN : ProcessAndUploadHandler(r, readable)
    \/ \E r \in Requests : CreateProjectHandler(r)
    \/ UploadDataResolves
    \/ UploadDataRejects
    \/ ExtractReturns
    \/ ExtractThrows
    \/ QueryReturns
    \/ QueryThrows
    \/ CreateProjectReturns
    \/ \E code \in PgErrorCodes : CreateProjectThrows(code)
    \/ RouterForwardsRejection

SpecControllers == Init /\ [][NextControllers]_vars

----------------------------------------------------------------------------
\* C22: Upload handlers forward identifiers only after delivery.  In
\* uploadAndAddRootHandler, uploadAndAddGenomeHandler and
\* uploadAndAddSpectrumHandler a row is inserted and 200 is sent only once
\* uploadData has resolved; when uploadData has rejected there is no row, no
\* response and exactly one next(error); a request never gets more than one
\* of a response or next(error), and a finished one has got exactly one.
Sent(status) == \E i \in 1..Len(hsent) : hsent[i] = status

ForwardAfterDelivery ==
    hreq.handler \in UploadHandlers
    => /\ (hrows > 0 \/ Sent(200)) => hupload = "resolved"
       /\ hupload = "rejected" =>
             hrows = 0 /\ hsent = <<>> /\ hnext = 1 /\ hpc = "done"
       /\ Len(hsent) + hnext <= 1
       /\ hpc = "done" => Len(hsent) + hnext = 1

\* A spectrum with valid metadata was uploaded, its row inserted and 200 sent.
ForwardAfterDeliveryWitness ==
    /\ hreq.handler = "uploadAndAddSpectrum"
    /\ hreq.metadata = "valid"
    /\ hupload = "resolved"
    /\ hrows = 1
    /\ hsent = <<200>>
    /\ hnext = 0
    /\ hpc = "done"

\* C23: Temporary file cleanup.  A request to processAndUploadHandler that
\* carries a file has had fs.unlink of its temporary file issued exactly once
\* when the handler is finished, on every exit path.
TempFileCleanup ==
    (hreq.handler \in ProcessHandlers /\ hreq.file /\ hpc = "done")
    => hunlinks = 1

\* C28: Duplicate project name.  When createProject has failed with code
\* 23505, createProjectHandler has answered 409 and next(error) has not been
\* called.
DuplicateNameAnswers409 ==
    (hreq.handler = "createProject" /\ herror = "23505")
    => hsent = <<409>> /\ hnext = 0 /\ hpc = "done"

----------------------------------------------------------------------------
\* services/project.service.js: mintNftForProject.  The pool, the database
\* and Flow are the environment: every query and the mint return or throw.
\* A transaction's UPDATE is visible to other clients once it is committed,
\* and holds the row until the transaction ends.

notMintVars == <<uploadVars, controllerVars, analyzeVars>>

\* Call m goes to its next await.
Goto(m, newpc) == mint' = [mint EXCEPT ![m].pc = newpc]

\* The transaction of call m ends without effect: its UPDATE is dropped and
\* the row it held is free.
TransactionEnds(m) ==
    /\ pendingNftId' = [pendingNftId EXCEPT ![m] = 0]
    /\ rowLock' = [p \in ExistingProjects |-> IF rowLock[p] = m THEN 0 ELSE rowLock[p]]

\* An error is thrown inside the try block: catch (error) issues ROLLBACK.
Catch(m, err) ==
    mint' = [mint EXCEPT ![m].pc = "rollback", ![m].error = err]

\* mintNftForProject(projectId) is called: `await pool.connect()`.
MintNftForProject(m, p) ==
    /\ mint[m].pc = "idle"
    /\ \A k \in Mints : k < m => mint[k].pc # "idle"
    /\ mint' = [mint EXCEPT ![m].pc = "connect", ![m].project = p]
    /\ UNCHANGED <<nftIdOf, pendingNftId, rowLock, mintProjectNFTCalls, minted,
                   notMintVars>>

\* pool.connect returns a client; the SELECT is issued.
ConnectReturns(m) ==
    /\ mint[m].pc = "connect"
    /\ mint' = [mint EXCEPT ![m].pc = "select", ![m].client = TRUE]
    /\ UNCHANGED <<nftIdOf, pendingNftId, rowLock, mintProjectNFTCalls, minted,
                   notMintVars>>

\* pool.connect throws, outside the try block: the call fails without a
\* client.
ConnectThrows(m) ==
    /\ mint[m].pc = "connect"
    /\ mint' = [mint EXCEPT ![m].pc = "done", ![m].outcome = "ConnectError"]
    /\ UNCHANGED <<nftIdOf, pendingNftId, rowLock, mintProjectNFTCalls, minted,
                   notMintVars>>

\* The SELECT returns the committed row: not found and already minted are
\* thrown; otherwise BEGIN is issued.
SelectReturns(m) ==
    /\ mint[m].pc = "select"
    /\ IF mint[m].project \notin ExistingProjects
       THEN Catch(m, "not found")
       ELSE IF nftIdOf[mint[m].project] # 0
            THEN Catch(m, "already been minted")
            ELSE Goto(m, "begin")
    /\ UNCHANGED <<nftIdOf, pendingNftId, rowLock, mintProjectNFTCalls, minted,
                   notMintVars>>

\* A query other than ROLLBACK, or the mint, throws at the await the call is
\* suspended at.
Throws(m, at, err) ==
    /\ mint[m].pc = at
    /\ Catch(m, err)
    /\ UNCHANGED <<nftIdOf, pendingNftId, rowLock, mintProjectNFTCalls, minted,
                   notMintVars>>

\* BEGIN returns; mintProjectNFT is invoked.
BeginReturns(m) ==
    /\ mint[m].pc = "begin"
    /\ Goto(m, "mintProjectNFT")
    /\ mintProjectNFTCalls' = [mintProjectNFTCalls EXCEPT ![mint[m].project] = @ + 1]
    /\ UNCHANGED <<nftIdOf, pendingNftId, rowLock, minted, notMintVars>>

\* The id Flow gives to the next NFT.
NextNftId == 1 + Cardinality(UNION {minted[p] : p \in ProjectIds})

\* mintProjectNFT returns the new NFT's id; the UPDATE is issued.
MintReturns(m) ==
    /\ mint[m].pc = "mintProjectNFT"
    /\ minted' = [minted EXCEPT ![mint[m].project] = @ \cup {NextNftId}]
    /\ mint' = [mint EXCEPT ![m].pc = "update", ![m].nft = NextNftId]
    /\ UNCHANGED <<nftIdOf, pendingNftId, rowLock, mintProjectNFTCalls, notMintVars>>

\* The UPDATE returns once no other open transaction holds the row; COMMIT
\* is issued.
UpdateReturns(m) ==
    /\ mint[m].pc = "update"
    /\ rowLock[mint[m].project] \in {0, m}
    /\ rowLock' = [rowLock EXCEPT ![mint[m].project] = m]
    /\ pendingNftId' = [pendingNftId EXCEPT ![m] = mint[m].nft]
    /\ Goto(m, "commit")
    /\ UNCHANGED <<nftIdOf, mintProjectNFTCalls, minted, notMintVars>>

\* COMMIT returns: the row has the new nft_id; the call returns the row and
\* the finally block releases the client.
CommitReturns(m) ==
    /\ mint[m].pc = "commit"
    /\ nftIdOf' = [nftIdOf EXCEPT ![mint[m].project] = pendingNftId[m]]
    /\ TransactionEnds(m)
    /\ mint' = [mint EXCEPT ![m].pc = "done", ![m].outcome = "ok",
                            ![m].releases = @ + 1]
    /\ UNCHANGED <<mintProjectNFTCalls, minted, notMintVars>>

\* COMMIT throws: nothing is committed.
CommitThrows(m) ==
    /\ mint[m].pc = "commit"
    /\ TransactionEnds(m)
    /\ Catch(m, "CommitError")
    /\ UNCHANGED <<nftIdOf, mintProjectNFTCalls, minted, notMintVars>>

\* ROLLBACK returns: the caught error is thrown again and the finally block
\* releases the client.
RollbackReturns(m) ==
    /\ mint[m].pc = "rollback"
    /\ TransactionEnds(m)
    /\ mint' = [mint EXCEPT ![m].pc = "done", ![m].outcome = mint[m].error,
                            ![m].releases = @ + 1]
    /\ UNCHANGED <<nftIdOf, mintProjectNFTCalls, minted, notMintVars>>

\* Variant of RollbackThrows: client.release() follows the ROLLBACK in the
\* catch block instead of standing in a finally block.
RollbackThrowsBeforeRelease(m) ==
    /\ mint[m].pc = "rollback"
    /\ TransactionEnds(m)
    /\ mint' = [mint EXCEPT ![m].pc = "done", ![m].outcome = "RollbackError"]
    /\ UNCHANGED <<nftIdOf, mintProjectNFTCalls, minted, notMintVars>>

\* ROLLBACK throws inside the catch block: its error is the one thrown to
\* the caller, and the finally block still releases the client.
RollbackThrows(m) ==
    /\ mint[m].pc = "rollback"
    /\ TransactionEnds(m)
    /\ mint' = [mint EXCEPT ![m].pc = "done", ![m].outcome = "RollbackError",
                            ![m].releases = @ + 1]
    /\ UNCHANGED <<nftIdOf, mintProjectNFTCalls, minted, notMintVars>>

NextMint ==
    \E m \in Mints :
        \/ \E p \in ProjectIds : MintNftForProject(m, p)
        \/ ConnectReturns(m)
        \/ ConnectThrows(m)
        \/ SelectReturns(m)
        \/ Throws(m, "select", "SelectError")
        \/ BeginReturns(m)
        \/ Throws(m, "begin", "BeginError")
        \/ MintReturns(m)
        \/ Throws(m, "mintProjectNFT", "MintError")
        \/ UpdateReturns(m)
        \/ Throws(m, "update", "UpdateError")
        \/ CommitReturns(m)
        \/ CommitThrows(m)
        \/ RollbackReturns(m)
        \/ RollbackThrows(m)

SpecMint == Init /\ [][NextMint]_vars

\* C24: a project is minted at most once: mintProjectNFT is invoked at most
\* once for a project id, however the concurrent mintNftForProject calls for
\* it interleave, and a call whose SELECT sees the committed nft_id fails
\* with the 'has already been minted' error.
MintedAtMostOnce ==
    /\ \A p \in ProjectIds : mintProjectNFTCalls[p] <= 1
    /\ \A m \in Mints :
        (mint[m].pc = "done" /\ mint[m].outcome = "already been minted")
            => mint[m].nft = 0 /\ nftIdOf[mint[m].project] # 0

\* C25: mint atomicity: a finished call either succeeded, with its NFT minted
\* and the project's nft_id set, or failed having minted no NFT; no failure
\* after the mint leaves an NFT that the database does not record.
MintAtomicity ==
    \A m \in Mints :
        (mint[m].pc = "done" /\ mint[m].client) =>
            IF mint[m].outcome = "ok"
            THEN /\ mint[m].nft \in minted[mint[m].project]
                 /\ nftIdOf[mint[m].project] # 0
            ELSE mint[m].nft = 0

\* C29: the client obtained by pool.connect is released exactly once on
\* every path of mintNftForProject: never before the call is over, never
\* twice, and always by the time the call has returned or thrown.
ClientReleasedOnce ==
    \A m \in Mints :
        /\ mint[m].releases <= 1
        /\ mint[m].releases = 1 => mint[m].client /\ mint[m].pc = "done"
        /\ (mint[m].pc = "done" /\ mint[m].client) => mint[m].releases = 1

\* A call whose ROLLBACK failed after a failed UPDATE and a call that
\* succeeded have both released their clients.
ClientReleasedOnceWitness ==
    /\ mint[1].outcome = "RollbackError"
    /\ mint[1].error = "UpdateError"
    /\ mint[1].releases = 1
    /\ mint[2].outcome = "ok"
    /\ mint[2].releases = 1

----------------------------------------------------------------------------
\* index.js: the route POST /api/analyze-ld50 and runScript (the same
\* function as services/analysis.service.js: runScript).  The child process
\* is the environment: it writes chunks to its streams and emits 'close'
\* once, with its exit code or null, and 'error' at most once, in any order.

notAnalyzeVars == <<uploadVars, controllerVars, mintVars>>

\* The JSON documents the script may print: results with a plotCid, results
\* with a plotUploadError, results with neither.
JsonObjects == {"{plotCid}", "{plotUploadError}", "{}"}

\* A chunk of stdout is a whole document or text that is no document.
StdoutChunks == JsonObjects \cup {"text"}

StderrChunks == {"message"}

\* The code of a 'close' event: 0, another exit code, null after a signal.
ExitCodes == {"0", "1", "null"}

\* JSON.parse of the accumulated stdout: the text is valid JSON when it is
\* exactly one document.
JsonParse(text) ==
    IF Len(text) = 1 /\ text[1] \in JsonObjects THEN text[1] ELSE "SyntaxError"

\* The message of the Error of a non-zero close: the code, then stderr.
ExitError(code) == <<"exited with code", code>> \o stderr

\* The err of an 'error' event.
SpawnError == <<"spawn error">>

\* The finally block: the directory is removed if it exists.
RemoveOutputDir ==
    IF outputDir = "exists"
    THEN outputDir' = "removed" /\ rmCalls' = rmCalls + 1
    ELSE UNCHANGED <<outputDir, rmCalls>>

\* The request arrives.  Without dataUrl it is answered 400 before the try
\* block; otherwise the directory is made and runScript spawns the child.
AnalyzeLd50(url) ==
    /\ apc = "idle"
    /\ dataUrl' = url
    /\ IF ~url
       THEN /\ apc' = "done"
            /\ asent' = Append(asent, 400)
            /\ UNCHANGED <<child, outputDir>>
       ELSE /\ apc' = "runScript"
            /\ outputDir' = "exists"
            /\ child' = [child EXCEPT !.spawned = TRUE]
            /\ UNCHANGED asent
    /\ UNCHANGED <<stdout, stderr, scriptPromise, scriptSettles, rmCalls, notAnalyzeVars>>

\* fs.mkdirSync throws inside the try block: the catch block, then the
\* finally block with no directory to remove.
MkdirThrows ==
    /\ apc = "idle"
    /\ dataUrl' = TRUE
    /\ apc' = "done"
    /\ UNCHANGED <<child, stdout, stderr, scriptPromise, scriptSettles, asent,
                   outputDir, rmCalls, notAnalyzeVars>>

\* process.stdout.on('data'): the chunk is appended to stdout.
StdoutData(chunk) ==
    /\ child.spawned
    /\ child.closeCode = "none"
    /\ Len(stdout) < MaxChunks
    /\ stdout' = Append(stdout, chunk)
    /\ UNCHANGED <<apc, dataUrl, child, stderr, scriptPromise, scriptSettles, asent,
                   outputDir, rmCalls, notAnalyzeVars>>

\* process.stderr.on('data'): the chunk is appended to stderr.
StderrData(chunk) ==
    /\ child.spawned
    /\ child.closeCode = "none"
    /\ Len(stderr) < MaxChunks
    /\ stderr' = Append(stderr, chunk)
    /\ UNCHANGED <<apc, dataUrl, child, stdout, scriptPromise, scriptSettles, asent,
                   outputDir, rmCalls, notAnalyzeVars>>

\* Variant of ChildClose: the listener resolves with stdout whatever the
\* code is.
ChildCloseIgnoresCode(code) ==
    /\ child.spawned
    /\ child.closeCode = "none"
    /\ child' = [child EXCEPT !.closeCode = code]
    /\ scriptPromise' = Settle(scriptPromise, "resolved", stdout)
    /\ scriptSettles' = scriptSettles + 1
    /\ UNCHANGED <<apc, dataUrl, stdout, stderr, asent, outputDir, rmCalls,
                   notAnalyzeVars>>

\* process.on('close'): reject when the code is not 0, resolve with stdout
\* otherwise.
ChildClose(code) ==
    /\ child.spawned
    /\ child.closeCode = "none"
    /\ child' = [child EXCEPT !.closeCode = code]
    /\ scriptPromise' = IF code # "0"
                        THEN Settle(scriptPromise, "rejected", ExitError(code))
                        ELSE Settle(scriptPromise, "resolved", stdout)
    /\ scriptSettles' = scriptSettles + 1
    /\ UNCHANGED <<apc, dataUrl, stdout, stderr, asent, outputDir, rmCalls,
                   notAnalyzeVars>>

\* process.on('error'): reject with the err.
ChildError ==
    /\ child.spawned
    /\ ~child.errored
    /\ child' = [child EXCEPT !.errored = TRUE]
    /\ scriptPromise' = Settle(scriptPromise, "rejected", SpawnError)
    /\ scriptSettles' = scriptSettles + 1
    /\ UNCHANGED <<apc, dataUrl, stdout, stderr, asent, outputDir, rmCalls,
                   notAnalyzeVars>>

\* `await runScript(...)` returns the output: it is parsed; a SyntaxError
\* and results without a plotCid are thrown into the catch block, which is
\* empty; otherwise the results are sent.  Then the finally block.
AwaitRunScriptReturns ==
    /\ apc = "runScript"
    /\ scriptPromise.state = "resolved"
    /\ apc' = "done"
    /\ asent' = IF JsonParse(scriptPromise.value) = "{plotCid}"
                THEN Append(asent, 200)
                ELSE asent
    /\ RemoveOutputDir
    /\ UNCHANGED <<dataUrl, child, stdout, stderr, scriptPromise, scriptSettles,
                   notAnalyzeVars>>

\* `await runScript(...)` throws: the empty catch block, then the finally
\* block.
AwaitRunScriptThrows ==
    /\ apc = "runScript"
    /\ scriptPromise.state = "rejected"
    /\ apc' = "done"
    /\ RemoveOutputDir
    /\ UNCHANGED <<dataUrl, child, stdout, stderr, scriptPromise, scriptSettles,
                   asent, notAnalyzeVars>>

NextAnalyze ==
    \/ \E url \in BOOLEAN : AnalyzeLd50(url)
    \/ MkdirThrows
    \/ \E chunk \in StdoutChunks : StdoutData(chunk)
    \/ \E chunk \in StderrChunks : StderrData(chunk)
    \/ \E code \in ExitCodes : ChildClose(code)
    \/ ChildError
    \/ AwaitRunScriptReturns
    \/ AwaitRunScriptThrows

SpecAnalyze == Init /\ [][NextAnalyze]_vars

\* C26: a request to POST /api/analyze-ld50 that passes the dataUrl check
\* has exactly one response when its handler is over, whether the script
\* succeeded with a plot CID, failed, printed invalid JSON or reported a
\* failed plot upload, and the temporary directory is removed on every path.
AnalyzeAlwaysAnswers ==
    (apc = "done" /\ dataUrl /\ child.spawned) =>
        Len(asent) = 1 /\ outputDir # "exists"

\* The child process emits 'close' with the code.
Closes(code) == child.closeCode = "none" /\ child'.closeCode = code

\* The child process emits 'error'.
Errors == ~child.errored /\ child'.errored

\* C27: runScript settles its promise at most once: the first 'close' or
\* 'error' event settles it, resolved with the accumulated stdout exactly
\* when that event is a close with code 0, rejected with the code and stderr
\* on another close, rejected with the err on 'error'; no later event and no
\* 'data' event changes the outcome.
RunScriptSettlesOnce ==
    [][/\ scriptPromise.state # "pending" => scriptPromise' = scriptPromise
       /\ scriptPromise' # scriptPromise => Errors \/ \E code \in ExitCodes : Closes(code)
       /\ scriptPromise.state = "pending" =>
            /\ Closes("0") => scriptPromise' = [state |-> "resolved", value |-> stdout]
            /\ \A code \in ExitCodes \ {"0"} :
                 Closes(code) => scriptPromise' = [state |-> "rejected",
                                                   value |-> <<"exited with code", code>> \o stderr]
            /\ Errors => scriptPromise' = [state |-> "rejected", value |-> SpawnError]
      ]_vars

\* An 'error' event rejected the promise and a later 'close' with code 0
\* and output left it rejected.
RunScriptSettlesOnceWitness ==
    /\ scriptPromise = [state |-> "rejected", value |-> SpawnError]
    /\ child.errored
    /\ child.closeCode = "0"
    /\ stdout = <<"{plotCid}">>
    /\ scriptSettles = 2

====
